---- MODULE Spec2Model ----
(***************************************************************************)
(* A model of the puzzle engine of sudoku_game: the Sudoku validity check, *)
(* the backtracking solver, the puzzle generator (src/sudoku_solver.py),   *)
(* the maze generator and the maze searches (src/maze_solver.py), and the  *)
(* handlers of the Sudoku game (src/main.py).                              *)
(*                                                                         *)
(* A board is a function from row 0..8 to a function from column 0..8 to a *)
(* value, as the code's list of lists board[row][col].                     *)
(***************************************************************************)
EXTENDS Integers, Sequences, FiniteSets, TLC

VARIABLES
    board,      \* the board an operation works on (mutated in place by the code)
    board0,     \* the board as it was when the operation was called
    op,         \* the operation in progress or last called
    args,       \* the arguments (row, col, num) of the last is_valid call
    pc,         \* position of the running operation
    ret,        \* the boolean the last call returned
    exc,        \* "none", or the exception the last call raised
    stack,      \* solve_sudoku: one frame per active call that found an empty cell
    first,      \* solve_sudoku: the outcome of the first of two independent runs
    difficulty,     \* generate_puzzle: its argument
    box,            \* generate_complete_board: the loop variable of lines 55-56
    puzzle_board,   \* generate_puzzle: the copy the cells are removed from
    removed,        \* generate_puzzle: the counter of lines 87-93
    pick,           \* generate_puzzle: the last random (row, col) drawn
    repicked,       \* generate_puzzle: some draw landed on an emptied cell
    maze,           \* MazeSolver.maze: the cell at (x, y) is maze[<<x, y>>]
    mstack,         \* _generate_maze_recursive: one frame per active call
    maze_solver,    \* MazeSolver: maze_size, start_pos, end_pos, solving,
                    \* current_algorithm
    tasks,          \* the solve_maze_click coroutines in flight, each suspended
                    \* at an await of solve_dfs, solve_bfs or reconstruct_path
    result,         \* per algorithm, how its last search ended on this grid
                    \* since the grid was generated or cleared
    game            \* SudokuGame: its boards and counters

sudoku_vars == <<board, board0, op, args, pc, ret, exc, stack, first>>
gen_vars == <<difficulty, box, puzzle_board, removed, pick, repicked>>
maze_vars == <<maze, mstack>>
search_vars == <<maze_solver, tasks, result>>
app_vars == <<search_vars, game>>
vars == <<sudoku_vars, gen_vars, maze_vars, app_vars>>

(***************************************************************************)
(* Bounds of the inputs the model explores.                                *)
(***************************************************************************)
\* How many cells of a base board a caller overwrites to hand-build an input.
MaxEdits == 2
\* How far outside 0..8 (rows, columns) and 1..9 (digits) is_valid's
\* arguments are drawn.
MaxOut == 1
\* The outcomes of random.shuffle(nums) are the rotations of 1..9 by
\* 0..MaxShift places.
MaxShift == 1
\* A random (row, col) lands on one of the first PickWidth non-empty cells of
\* the puzzle in row-major order, or again on the cell drawn just before.
PickWidth == 1
\* The maze is (2 * MazeHalf + 1) cells wide and high: MazeHalf * MazeHalf
\* rooms at odd coordinates.  The program runs with maze_size = 21.
MazeHalf == 3
\* A caller builds grids of HandSize by HandSize cells with at most MaxWalls
\* walls.
HandSize == 3
MaxWalls == 2
\* The mistakes counter of SudokuGame is followed up to MistakeCap.
MistakeCap == 3

\* The cells a caller overwrites: the 2x2 corner of the top-left box, which
\* holds two cells of one row and two of one column within one box.
EditCells == (0 .. 1) \X (0 .. 1)

(***************************************************************************)
(* Boards.                                                                 *)
(***************************************************************************)
Idx == 0 .. 8

MkBoard(rows) == [i \in Idx |-> [j \in Idx |-> rows[i + 1][j + 1]]]

\* The test board of test_sudoku_solver.
test_board ==
    MkBoard(<< <<5, 3, 0, 0, 7, 0, 0, 0, 0>>,
               <<6, 0, 0, 1, 9, 5, 0, 0, 0>>,
               <<0, 9, 8, 0, 0, 0, 0, 6, 0>>,
               <<8, 0, 0, 0, 6, 0, 0, 0, 3>>,
               <<4, 0, 0, 8, 0, 3, 0, 0, 1>>,
               <<7, 0, 0, 0, 2, 0, 0, 0, 6>>,
               <<0, 6, 0, 0, 0, 0, 2, 8, 0>>,
               <<0, 0, 0, 4, 1, 9, 0, 0, 5>>,
               <<0, 0, 0, 0, 8, 0, 0, 7, 9>> >>)

\* The completion of test_board.
SolvedBoard ==
    MkBoard(<< <<5, 3, 4, 6, 7, 8, 9, 1, 2>>,
               <<6, 7, 2, 1, 9, 5, 3, 4, 8>>,
               <<1, 9, 8, 3, 4, 2, 5, 6, 7>>,
               <<8, 5, 9, 7, 6, 1, 4, 2, 3>>,
               <<4, 2, 6, 8, 5, 3, 7, 9, 1>>,
               <<7, 1, 3, 9, 2, 4, 8, 5, 6>>,
               <<9, 6, 1, 5, 3, 7, 2, 8, 4>>,
               <<2, 8, 7, 4, 1, 9, 6, 3, 5>>,
               <<3, 4, 5, 2, 8, 6, 1, 7, 9>> >>)

\* A board whose rows and columns are permutations of 1..9 and whose boxes
\* are not (a cyclic Latin square).
LatinBoard == [i \in Idx |-> [j \in Idx |-> ((i + j) % 9) + 1]]

\* The board of SudokuSolver.__init__ and of generate_complete_board's start.
EmptyBoard == [i \in Idx |-> [j \in Idx |-> 0]]

\* A board with one cell overwritten, as a caller's board[r][c] = v.
SetCell(b, r, c, v) == [b EXCEPT ![r][c] = v]

Edits(S) ==
    S \cup {SetCell(b, c[1], c[2], v) : b \in S, c \in EditCells, v \in 0 .. 9}

RECURSIVE EditedBoards(_, _)
EditedBoards(S, k) == IF k = 0 THEN S ELSE EditedBoards(Edits(S), k - 1)

(***************************************************************************)
(* Python's list indexing: an index in -9..-1 counts from the end, and an  *)
(* index outside -9..8 raises IndexError.                                  *)
(***************************************************************************)
InRange(k) == k \in -9 .. 8

PyIndex(k) == IF k < 0 THEN k + 9 ELSE k

At(b, r, c) == b[PyIndex(r)][PyIndex(c)]

(***************************************************************************)
(* SudokuSolver.is_valid.  The three loops return False at the first cell  *)
(* equal to num; board[row] is indexed first in the row loop, board[x][col]*)
(* in the column loop, which is reached only when the row loop found       *)
(* nothing.  The box indices i + start_row, j + start_col stay in -9..8    *)
(* whenever row and col are.                                               *)
(***************************************************************************)
RowHit(b, row, num) == \E x \in 0 .. 8 : At(b, row, x) = num

ColHit(b, col, num) == \E x \in 0 .. 8 : At(b, x, col) = num

BoxHitNoBase(b, row, col, num) ==
    \E i \in 0 .. 2, j \in 0 .. 2 : At(b, (i + row) % 9, (j + col) % 9) = num

BoxHit(b, row, col, num) ==
    LET start_row == row - (row % 3)
        start_col == col - (col % 3)
    IN  \E i \in 0 .. 2, j \in 0 .. 2 : At(b, i + start_row, j + start_col) = num

\* TRUE iff the call raises IndexError instead of returning.
is_valid_raises(b, row, col, num) ==
    \/ ~InRange(row)
    \/ ~RowHit(b, row, num) /\ ~InRange(col)

is_valid_rows_cols(b, row, col, num) ==
    ~RowHit(b, row, num) /\ ~ColHit(b, col, num)

\* The value the call returns when it does not raise.
is_valid(b, row, col, num) ==
    ~RowHit(b, row, num) /\ ~ColHit(b, col, num) /\ ~BoxHit(b, row, col, num)

(***************************************************************************)
(* SudokuSolver.check_solution: the row-major scan, with the temporary     *)
(* clear and the restore on both exits.  check_row scans row i from column *)
(* j on, check_rows the rows from i on; each yields the returned value (for*)
(* check_row: whether the scan goes on) and the board as it is left.       *)
(***************************************************************************)
RECURSIVE check_row_leaves_cleared(_, _, _)
check_row_leaves_cleared(b, i, j) ==
    IF j = 9 THEN [ret |-> TRUE, board |-> b]
    ELSE LET temp == b[i][j]
             cleared == [b EXCEPT ![i][j] = 0]
             restored == [cleared EXCEPT ![i][j] = temp]
         IN  IF b[i][j] = 0 THEN [ret |-> FALSE, board |-> b]
             ELSE IF ~is_valid(cleared, i, j, temp)
                  THEN [ret |-> FALSE, board |-> cleared]
                  ELSE check_row_leaves_cleared(restored, i, j + 1)

RECURSIVE check_row(_, _, _)
check_row(b, i, j) ==
    IF j = 9 THEN [ret |-> TRUE, board |-> b]
    ELSE LET temp == b[i][j]
             cleared == [b EXCEPT ![i][j] = 0]
             restored == [cleared EXCEPT ![i][j] = temp]
         IN  IF b[i][j] = 0 THEN [ret |-> FALSE, board |-> b]
             ELSE IF ~is_valid(cleared, i, j, temp)
                  THEN [ret |-> FALSE, board |-> restored]
                  ELSE check_row(restored, i, j + 1)

RECURSIVE check_rows(_, _)
check_rows(b, i) ==
    IF i = 9 THEN [ret |-> TRUE, board |-> b]
    ELSE LET r == check_row(b, i, 0)
         IN  IF ~r.ret THEN r ELSE check_rows(r.board, i + 1)

check_solution_no_clear(b) ==
    [ret |-> \A i \in Idx, j \in Idx : b[i][j] # 0 /\ is_valid(b, i, j, b[i][j]),
     board |-> b]

check_solution(b) == check_rows(b, 0)

(***************************************************************************)
(* Reference definitions the properties are stated with.                   *)
(***************************************************************************)
RowVals(b, i) == {b[i][j] : j \in Idx}
ColVals(b, j) == {b[i][j] : i \in Idx}
BoxCells(i, j) ==
    {<<r, c>> \in Idx \X Idx : r \div 3 = i \div 3 /\ c \div 3 = j \div 3}
BoxVals(b, i, j) == {b[c[1]][c[2]] : c \in BoxCells(i, j)}

\* No cell is 0 and every row, column and box holds each of 1..9 (nine
\* cells holding the nine digits hold each exactly once).
IsSolved(b) ==
    /\ \A i \in Idx, j \in Idx : b[i][j] # 0
    /\ \A i \in Idx : RowVals(b, i) = 1 .. 9
    /\ \A j \in Idx : ColVals(b, j) = 1 .. 9
    /\ \A i \in {0, 3, 6}, j \in {0, 3, 6} : BoxVals(b, i, j) = 1 .. 9

Differing(a, b) == {c \in Idx \X Idx : a[c[1]][c[2]] # b[c[1]][c[2]]}

(***************************************************************************)
(* The operations on a caller's board.                                     *)
(***************************************************************************)
NoRun == [done |-> FALSE, ret |-> FALSE, board |-> EmptyBoard]

SolverIdle == stack = <<>> /\ first = NoRun

\* No generate_puzzle call has started.
GenIdle ==
    /\ difficulty = "none" /\ box = 0 /\ puzzle_board = EmptyBoard
    /\ removed = 0 /\ pick = <<0, 0>> /\ repicked = FALSE

\* No MazeSolver exists.
MazeIdle == maze = <<>> /\ mstack = <<>>

NoResult == [outcome |-> "none", path |-> <<>>]

\* No search has run on the grid.
SearchIdle == tasks = <<>> /\ result = [a \in {"DFS", "BFS"} |-> NoResult]

\* No SudokuGame exists.
GameIdle == game = <<>>

\* is_valid(board, row, col, num) on any of the boards of the tests.
ValidInputs == {test_board, SolvedBoard, EmptyBoard}

InitValid ==
    /\ board \in ValidInputs
    /\ board0 = board
    /\ op = "none" /\ args = <<>> /\ pc = "idle"
    /\ ret = FALSE /\ exc = "none"
    /\ SolverIdle /\ GenIdle /\ MazeIdle
    /\ maze_solver = <<>> /\ SearchIdle /\ GameIdle

IsValidCall(row, col, num) ==
    /\ pc = "idle"
    /\ op' = "is_valid" /\ args' = <<row, col, num>>
    /\ pc' = "returned"
    /\ IF is_valid_raises(board, row, col, num)
       THEN exc' = "IndexError" /\ ret' = ret
       ELSE exc' = "none" /\ ret' = is_valid(board, row, col, num)
    /\ UNCHANGED <<board, board0, stack, first, gen_vars, maze_vars, app_vars>>

NextValid ==
    \E row \in (0 - MaxOut) .. (8 + MaxOut), col \in (0 - MaxOut) .. (8 + MaxOut),
       num \in (1 - MaxOut) .. (9 + MaxOut) : IsValidCall(row, col, num)

SpecValid == InitValid /\ [][NextValid]_vars

\* check_solution(board) on a solved board, or a Latin square, with up to
\* MaxEdits cells of EditCells overwritten, and on the solved board with any
\* one cell overwritten.
AnyCellEdits(b) == {SetCell(b, r, c, v) : r \in Idx, c \in Idx, v \in 0 .. 9}

CheckInputs ==
    EditedBoards({SolvedBoard, LatinBoard}, MaxEdits) \cup AnyCellEdits(SolvedBoard)

InitCheck ==
    /\ board \in CheckInputs
    /\ board0 = board
    /\ op = "none" /\ args = <<>> /\ pc = "idle"
    /\ ret = FALSE /\ exc = "none"
    /\ SolverIdle /\ GenIdle /\ MazeIdle
    /\ maze_solver = <<>> /\ SearchIdle /\ GameIdle

CheckSolutionCall ==
    /\ pc = "idle"
    /\ op' = "check_solution" /\ pc' = "returned"
    /\ LET r == check_solution(board)
       IN  ret' = r.ret /\ board' = r.board
    /\ UNCHANGED <<board0, args, exc, stack, first, gen_vars,
                   maze_vars, app_vars>>

NextCheck == CheckSolutionCall

SpecCheck == InitCheck /\ [][NextCheck]_vars

(***************************************************************************)
(* SudokuSolver.solve_sudoku, one step per loop iteration.  The stack holds*)
(* a frame for every active call that found an empty cell: the cell (i, j) *)
(* and the digits its loop `for num in range(1, 10)` has still to try.     *)
(*   pc = "call": a call starts its scan for the first empty cell;         *)
(*   pc = "loop": the top frame is at the head of its digit loop;          *)
(*   pc = "ret" : a call has returned `ret` to the frame below it.         *)
(***************************************************************************)
Blanks(b) == {c \in Idx \X Idx : b[c[1]][c[2]] = 0}

\* The first empty cell in the row-major scan of lines 38-40.
FirstEmpty(b) ==
    CHOOSE c \in Blanks(b) :
        \A d \in Blanks(b) : 9 * c[1] + c[2] <= 9 * d[1] + d[2]

\* A digit order that an earlier run leaves reversed for the next one.
OrdersByRun ==
    IF first.done THEN {<<9, 8, 7, 6, 5, 4, 3, 2, 1>>}
    ELSE {<<1, 2, 3, 4, 5, 6, 7, 8, 9>>}

\* The orders in which the digit loop may enumerate its candidates:
\* range(1, 10), ascending, and no other.
CandidateOrders == {<<1, 2, 3, 4, 5, 6, 7, 8, 9>>}

KeepCell(b, i, j) == b

ClearRow(b, i, j) == [b EXCEPT ![i] = [c \in Idx |-> 0]]

\* The undo of line 46.
Undo(b, i, j) == SetCell(b, i, j, 0)

\* Where the outermost call returns to.
AfterSolve == IF op = "solve_sudoku" THEN "done" ELSE "solved"

SolveEnter ==
    /\ pc = "call"
    /\ IF Blanks(board) = {}
       THEN /\ ret' = TRUE
            /\ pc' = "ret"
            /\ stack' = stack
       ELSE /\ \E order \in CandidateOrders :
                 stack' = <<[i |-> FirstEmpty(board)[1],
                             j |-> FirstEmpty(board)[2],
                             rest |-> order]>> \o stack
            /\ pc' = "loop"
            /\ ret' = ret
    /\ UNCHANGED <<board, board0, op, args, exc, first, gen_vars,
                   maze_vars, app_vars>>

SolveTry ==
    /\ pc = "loop"
    /\ LET f == Head(stack)
       IN  IF f.rest = <<>>
           THEN /\ ret' = FALSE
                /\ pc' = "ret"
                /\ stack' = Tail(stack)
                /\ board' = board
           ELSE /\ stack' = <<[f EXCEPT !.rest = Tail(f.rest)]>> \o Tail(stack)
                /\ ret' = ret
                /\ IF is_valid(board, f.i, f.j, Head(f.rest))
                   THEN /\ board' = SetCell(board, f.i, f.j, Head(f.rest))
                        /\ pc' = "call"
                   ELSE /\ board' = board
                        /\ pc' = "loop"
    /\ UNCHANGED <<board0, op, args, exc, first, gen_vars, maze_vars, app_vars>>

SolveReturn ==
    /\ pc = "ret"
    /\ IF stack = <<>>
       THEN /\ pc' = AfterSolve
            /\ UNCHANGED <<board, stack, gen_vars, maze_vars, app_vars>>
       ELSE IF ret
            THEN /\ stack' = Tail(stack)
                 /\ pc' = "ret"
                 /\ board' = board
            ELSE /\ board' = Undo(board, Head(stack).i, Head(stack).j)
                 /\ pc' = "loop"
                 /\ stack' = stack
    /\ UNCHANGED <<board0, op, args, ret, exc, first, gen_vars,
                   maze_vars, app_vars>>

\* solve_sudoku(board) called on a caller's board.
SolveCall ==
    /\ pc = "idle"
    /\ op' = "solve_sudoku" /\ pc' = "call"
    /\ UNCHANGED <<board, board0, args, ret, exc, stack, first, gen_vars,
                   maze_vars, app_vars>>

\* A second, independent call on a fresh copy of the same input board.
SolveAgain ==
    /\ pc = "done" /\ op = "solve_sudoku" /\ ~first.done
    /\ first' = [done |-> TRUE, ret |-> ret, board |-> board]
    /\ board' = board0
    /\ pc' = "call"
    /\ UNCHANGED <<board0, op, args, ret, exc, stack, gen_vars,
                   maze_vars, app_vars>>

\* test_board with the clue 2 added at (0, 7): consistent clues, no completion.
DeadBoard == SetCell(test_board, 0, 7, 2)

\* The solved board without the rectangle 6 7 / 7 6 of rows 0 and 3 and
\* columns 3 and 4: it has two completions.
TwinBoard ==
    SetCell(SetCell(SetCell(SetCell(SolvedBoard, 0, 3, 0), 0, 4, 0), 3, 3, 0),
            3, 4, 0)

\* solve_sudoku's inputs: the solved board with up to MaxEdits cells of
\* EditCells overwritten (blanked or changed), the test board, the test
\* board with a clue that rules out every completion, a board with two
\* completions, the empty board.
SolveInputs ==
    EditedBoards({SolvedBoard}, MaxEdits)
        \cup {test_board, DeadBoard, TwinBoard, EmptyBoard}

InitSolve ==
    /\ board \in SolveInputs
    /\ board0 = board
    /\ op = "none" /\ args = <<>> /\ pc = "idle"
    /\ ret = FALSE /\ exc = "none"
    /\ SolverIdle /\ GenIdle /\ MazeIdle
    /\ maze_solver = <<>> /\ SearchIdle /\ GameIdle

NextSolve == SolveCall \/ SolveEnter \/ SolveTry \/ SolveReturn \/ SolveAgain

SpecSolve == InitSolve /\ [][NextSolve]_vars

(***************************************************************************)
(* Reference definitions for the solver properties.                        *)
(***************************************************************************)
\* b keeps every non-zero cell of b0.
Agrees(b0, b) == \A i \in Idx, j \in Idx : b0[i][j] # 0 => b[i][j] = b0[i][j]

Fill(b, f) ==
    [i \in Idx |-> [j \in Idx |-> IF b[i][j] = 0 THEN f[<<i, j>>] ELSE b[i][j]]]

\* Every valid completion of b, by trying every filling of its empty cells.
Completions(b) ==
    {s \in {Fill(b, f) : f \in [Blanks(b) -> 1 .. 9]} : IsSolved(s)}

\* Whether Completions(b) is small enough to enumerate: at most 9^4 fillings.
FewBlanks(b) == Cardinality(Blanks(b)) <= 4

\* All completions of b when it has few empty cells; otherwise the solved
\* board when it is one.
KnownCompletions(b) ==
    IF FewBlanks(b) THEN Completions(b)
    ELSE {s \in {SolvedBoard} : Agrees(b, s) /\ IsSolved(s)}

(***************************************************************************)
(* SudokuSolver.generate_puzzle, with generate_complete_board and _fill_box*)
(* inlined as the code calls them.                                         *)
(*   pc = "fill"  : generate_complete_board is at the head of its loop over*)
(*                  the diagonal boxes;                                    *)
(*   pc = "call", "loop", "ret": inside solve_sudoku (above);              *)
(*   pc = "solved": solve_sudoku has returned to generate_complete_board;  *)
(*   pc = "remove": generate_puzzle is at the head of its while loop.      *)
(* `board` is generate_complete_board's board, then complete_board.        *)
(***************************************************************************)
Rotation(k) == [n \in 1 .. 9 |-> ((n + k - 1) % 9) + 1]

\* What random.shuffle(nums) may leave in nums.
ShuffleOutcomes == {Rotation(k) : k \in 0 .. MaxShift}

fill_box_sum(b, row, col, nums) ==
    [r \in Idx |-> [c \in Idx |->
        IF r \in row .. row + 2 /\ c \in col .. col + 2
        THEN nums[(r - row) + (c - col) + 1]
        ELSE b[r][c]]]

\* _fill_box: board[row + i][col + j] = nums[i * 3 + j]; nums is 1-indexed
\* here.
fill_box(b, row, col, nums) ==
    [r \in Idx |-> [c \in Idx |->
        IF r \in row .. row + 2 /\ c \in col .. col + 2
        THEN nums[(r - row) * 3 + (c - col) + 1]
        ELSE b[r][c]]]

\* difficulty_map.get(difficulty, 50).
cells_to_remove(d) ==
    CASE d = "easy" -> 40
      [] d = "medium" -> 50
      [] d = "hard" -> 60
      [] OTHER -> 50

remove_counting_all(p, row, col, n) ==
    [puzzle_board |-> SetCell(p, row, col, 0), removed |-> n + 1]

\* The body of the while loop, lines 91-93, for the drawn (row, col).
remove_cell(p, row, col, n) ==
    IF p[row][col] # 0
    THEN [puzzle_board |-> SetCell(p, row, col, 0), removed |-> n + 1]
    ELSE [puzzle_board |-> p, removed |-> n]

NonEmpty(b) == (Idx \X Idx) \ Blanks(b)

RowMajor(c) == 9 * c[1] + c[2]

RECURSIVE FirstOf(_, _)
FirstOf(S, w) ==
    IF w = 0 \/ S = {} THEN {}
    ELSE LET m == CHOOSE c \in S : \A d \in S : RowMajor(c) <= RowMajor(d)
         IN  {m} \cup FirstOf(S \ {m}, w - 1)

\* The first w non-empty cells of b in row-major order.
FirstNonEmpty(b, w) == FirstOf(NonEmpty(b), w)

\* The cells a draw may land on.
Draws == FirstNonEmpty(puzzle_board, PickWidth) \cup {pick}

GeneratePuzzleCall(d) ==
    /\ pc = "idle"
    /\ op' = "generate_puzzle" /\ difficulty' = d
    /\ board' = EmptyBoard
    /\ box' = 0
    /\ pc' = "fill"
    /\ UNCHANGED <<board0, args, ret, exc, stack, first,
                   puzzle_board, removed, pick, repicked, maze_vars, app_vars>>

FillBox ==
    /\ pc = "fill"
    /\ IF box < 9
       THEN /\ \E nums \in ShuffleOutcomes : board' = fill_box(board, box, box, nums)
            /\ box' = box + 3
            /\ pc' = "fill"
       ELSE /\ pc' = "call"
            /\ UNCHANGED <<board, box>>
    /\ UNCHANGED <<board0, op, args, ret, exc, stack, first,
                   difficulty, puzzle_board, removed, pick, repicked,
                   maze_vars, app_vars>>

\* Lines 60 and 74-75: the complete board is returned and copied.
CopyBoard ==
    /\ pc = "solved"
    /\ puzzle_board' = board
    /\ removed' = 0
    /\ pc' = "remove"
    /\ UNCHANGED <<board, board0, op, args, ret, exc, stack, first,
                   difficulty, box, pick, repicked, maze_vars, app_vars>>

\* One iteration of the while loop of lines 88-93.
RemovePick ==
    /\ pc = "remove"
    /\ removed < cells_to_remove(difficulty)
    /\ \E c \in Draws :
          LET r == remove_cell(puzzle_board, c[1], c[2], removed)
          IN  /\ puzzle_board' = r.puzzle_board
              /\ removed' = r.removed
              /\ pick' = c
              /\ repicked' = (repicked \/ puzzle_board[c[1]][c[2]] = 0)
    /\ UNCHANGED <<sudoku_vars, difficulty, box, maze_vars, app_vars>>

\* The loop ends and generate_puzzle returns (puzzle_board, complete_board).
GenerateReturn ==
    /\ pc = "remove"
    /\ ~(removed < cells_to_remove(difficulty))
    /\ pc' = "done"
    /\ UNCHANGED <<board, board0, op, args, ret, exc, stack, first,
                   gen_vars, maze_vars, app_vars>>

Difficulties == {"easy", "medium", "hard"}

InitGen ==
    /\ board = EmptyBoard
    /\ board0 = board
    /\ op = "none" /\ args = <<>> /\ pc = "idle"
    /\ ret = FALSE /\ exc = "none"
    /\ SolverIdle /\ GenIdle /\ MazeIdle
    /\ maze_solver = <<>> /\ SearchIdle /\ GameIdle

NextGen ==
    \/ \E d \in Difficulties : GeneratePuzzleCall(d)
    \/ FillBox
    \/ SolveEnter
    \/ SolveTry
    \/ SolveReturn
    \/ CopyBoard
    \/ RemovePick
    \/ GenerateReturn

SpecGen == InitGen /\ [][NextGen]_vars

(***************************************************************************)
(* MazeSolver: the grid and generate_maze.  mstack holds a frame for every *)
(* active call of _generate_maze_recursive: its cell (x, y) and the        *)
(* directions it has not recursed into yet.  random.shuffle(directions)    *)
(* followed by the loop over the list takes the four directions in any     *)
(* order, each once.  An iteration that leaves the grid or finds the target*)
(* visited changes nothing, and such a target stays so for the rest of the *)
(* generation; so the next recursive call of a frame is into any direction *)
(* it has not recursed into whose target is in the grid and unvisited, and *)
(* the call returns when there is none.  One step of the model runs the    *)
(* loop up to its next recursive call or its end.                          *)
(***************************************************************************)
maze_size == 2 * MazeHalf + 1

Cells == (0 .. maze_size - 1) \X (0 .. maze_size - 1)

start_pos == <<1, 1>>

end_pos == <<maze_size - 2, maze_size - 2>>

\* MazeCell.__init__.
NewCell ==
    [is_wall |-> FALSE, is_start |-> FALSE, is_end |-> FALSE,
     is_visited |-> FALSE, is_path |-> FALSE, algorithm_state |-> "unvisited"]

AllWallsButTwo(m) ==
    [c \in Cells |-> [m[c] EXCEPT !.is_wall = c \notin {<<2, 1>>, <<1, 2>>},
                                  !.is_visited = FALSE,
                                  !.is_path = FALSE,
                                  !.algorithm_state = "unvisited"]]

\* Lines 227-232: every cell becomes an unvisited wall.
AllWalls(m) ==
    [c \in Cells |-> [m[c] EXCEPT !.is_wall = TRUE, !.is_visited = FALSE,
                                  !.is_path = FALSE,
                                  !.algorithm_state = "unvisited"]]

\* right, down, left, up.
Directions == {<<2, 0>>, <<0, 2>>, <<-2, 0>>, <<0, -2>>}

\* Lines 248-249: the cell a call starts on is opened and marked.
OpenCell(m, c) == [m EXCEPT ![c].is_wall = FALSE, ![c].is_visited = TRUE]

InBounds(c) ==
    /\ 0 <= c[1] /\ c[1] < maze_size
    /\ 0 <= c[2] /\ c[2] < maze_size

WallAtTarget(c, d) == <<c[1] + d[1], c[2] + d[2]>>

\* Line 264: the cell between (x, y) and (x + dx, y + dy).
WallBetween(c, d) == <<c[1] + (d[1] \div 2), c[2] + (d[2] \div 2)>>

\* Lines 238-241.
SetStartEnd(m) ==
    [m EXCEPT ![start_pos].is_wall = FALSE, ![start_pos].is_start = TRUE,
              ![end_pos].is_wall = FALSE, ![end_pos].is_end = TRUE]

\* generate_maze up to its call _generate_maze_recursive(1, 1); called by
\* __init__ and again by generate_maze_click.
GenerateMazeCall ==
    /\ pc \in {"idle", "done"}
    /\ op' = "generate_maze"
    /\ maze' = OpenCell(AllWalls(maze), <<1, 1>>)
    /\ mstack' = <<[c |-> <<1, 1>>, rest |-> Directions]>>
    /\ pc' = "carve"
    /\ result' = [a \in {"DFS", "BFS"} |-> NoResult]
    /\ UNCHANGED <<board, board0, args, ret, exc, stack, first, gen_vars,
                   maze_solver, tasks, game>>

Target(c, d) == <<c[1] + d[1], c[2] + d[2]>>

\* Lines 259-261: the loop does not skip direction d from cell c.
Carvable(m, c, d) == InBounds(Target(c, d)) /\ ~m[Target(c, d)].is_visited

\* The loop of lines 255-268 in the innermost call, up to its next recursive
\* call (lines 264-268).
CarveStep ==
    /\ pc = "carve" /\ mstack # <<>>
    /\ LET f == Head(mstack)
       IN  \E d \in f.rest :
              /\ Carvable(maze, f.c, d)
              /\ maze' = OpenCell([maze EXCEPT
                                     ![WallBetween(f.c, d)].is_wall = FALSE],
                                  Target(f.c, d))
              /\ mstack' = <<[c |-> Target(f.c, d), rest |-> Directions],
                             [f EXCEPT !.rest = f.rest \ {d}]>> \o Tail(mstack)
    /\ UNCHANGED <<sudoku_vars, gen_vars, app_vars>>

\* The loop of the innermost call ends: every direction left is skipped.
CarveReturn ==
    /\ pc = "carve" /\ mstack # <<>>
    /\ \A d \in Head(mstack).rest : ~Carvable(maze, Head(mstack).c, d)
    /\ mstack' = Tail(mstack)
    /\ UNCHANGED <<sudoku_vars, gen_vars, maze, app_vars>>

\* The outermost call has returned: lines 238-241.
MazeFinish ==
    /\ pc = "carve" /\ mstack = <<>>
    /\ maze' = SetStartEnd(maze)
    /\ pc' = "done"
    /\ UNCHANGED <<board, board0, op, args, ret, exc, stack, first, gen_vars,
                   mstack, app_vars>>

\* create_maze_display has built the grid; __init__ is about to call
\* generate_maze.
InitMaze ==
    /\ board = EmptyBoard
    /\ board0 = board
    /\ op = "none" /\ args = <<>> /\ pc = "idle"
    /\ ret = FALSE /\ exc = "none"
    /\ SolverIdle /\ GenIdle
    /\ maze = [c \in Cells |-> NewCell]
    /\ mstack = <<>>
    /\ maze_solver = [maze_size |-> maze_size, start_pos |-> start_pos,
                      end_pos |-> end_pos, solving |-> FALSE,
                      current_algorithm |-> "DFS"]
    /\ SearchIdle /\ GameIdle

NextMaze == GenerateMazeCall \/ CarveStep \/ CarveReturn \/ MazeFinish

SpecMaze == InitMaze /\ [][NextMaze]_vars

(***************************************************************************)
(* MazeSolver: the searches.  solve_maze_click is a coroutine; it runs     *)
(* without interruption from one await to the next, and between two awaits *)
(* the event loop may run any other handler.  A task of the model is one   *)
(* solve_maze_click call suspended at an await: at the sleep that follows  *)
(* the marking of the current cell (pc "sleep", lines 366 and 419) or at   *)
(* the sleep that follows the marking of a path cell (pc "path", line 472).*)
(* Each action runs one task from its await to its next await or its end.  *)
(***************************************************************************)
MovesUpTwice == <<<<1, 0>>, <<0, -1>>, <<-1, 0>>, <<0, -1>>>>

MovesJumpRight == <<<<2, 0>>, <<0, 1>>, <<-1, 0>>, <<0, -1>>>>

\* Lines 379 and 433: right, down, left, up.
Moves == <<<<1, 0>>, <<0, 1>>, <<-1, 0>>, <<0, -1>>>>

PassableThroughWalls(n, visited) ==
    /\ 0 <= n[1] /\ n[1] < maze_solver.maze_size
    /\ 0 <= n[2] /\ n[2] < maze_solver.maze_size
    /\ n \notin visited

\* Lines 383-384 and 437-438.
Passable(n, visited) ==
    /\ 0 <= n[1] /\ n[1] < maze_solver.maze_size
    /\ 0 <= n[2] /\ n[2] < maze_solver.maze_size
    /\ ~maze[n].is_wall
    /\ n \notin visited

NeighboursRightDown(c, visited) ==
    SelectSeq([i \in 1 .. 2 |-> Target(c, Moves[i])],
              LAMBDA n : Passable(n, visited))

\* The neighbours the loops of lines 379-387 and 433-441 append, in order.
Neighbours(c, visited) ==
    SelectSeq([i \in 1 .. 4 |-> Target(c, Moves[i])],
              LAMBDA n : Passable(n, visited))

Range(s) == {s[i] : i \in DOMAIN s}

MarkAndWall(m, c, s) ==
    IF m[c].is_start \/ m[c].is_end THEN m
    ELSE [m EXCEPT ![c].algorithm_state = s, ![c].is_wall = (s = "visited")]

\* Lines 363-364, 375-376, 415-416, 429-430: the start and the end cell keep
\* their state.
Mark(m, c, s) ==
    IF m[c].is_start \/ m[c].is_end THEN m
    ELSE [m EXCEPT ![c].algorithm_state = s]

parent_overwritten(parent, ns, current) ==
    IF ns = {} THEN parent
    ELSE [n \in DOMAIN parent \cup ns |->
            IF n \in ns THEN current ELSE parent[n]]

\* Lines 386-387: a neighbour keeps the parent it has.
dfs_parent(parent, ns, current) ==
    IF ns = {} THEN parent
    ELSE [n \in DOMAIN parent \cup ns |->
            IF n \in DOMAIN parent THEN parent[n] ELSE current]

\* Line 441.
bfs_parent(parent, ns, current) ==
    IF ns = {} THEN parent
    ELSE [n \in DOMAIN parent \cup ns |->
            IF n \in ns THEN current ELSE parent[n]]

\* Lines 355-360: the stack after the pops that find a visited cell.
RECURSIVE PopVisited(_, _)
PopVisited(s, visited) ==
    IF s = <<>> THEN s
    ELSE IF s[Len(s)] \in visited THEN PopVisited(SubSeq(s, 1, Len(s) - 1),
                                                  visited)
    ELSE s

\* Lines 451-453: the cells appended to path, the goal first.
RECURSIVE Collect(_, _)
Collect(parent, current) ==
    IF current \in DOMAIN parent
    THEN <<current>> \o Collect(parent, parent[current])
    ELSE <<>>

NotReversed(s) == s

\* Line 455.
Reverse(s) == [i \in 1 .. Len(s) |-> s[Len(s) + 1 - i]]

path_with_start(parent, goal) ==
    <<maze_solver.start_pos>> \o Reverse(Collect(parent, goal))

\* Lines 448-455.
path_of(parent, goal) == Reverse(Collect(parent, goal))

FrontierToUnvisited(m) ==
    [c \in DOMAIN m |->
        IF m[c].algorithm_state = "frontier"
        THEN [m[c] EXCEPT !.algorithm_state = "unvisited"] ELSE m[c]]

\* Lines 458-461.
ClearFrontier(m) ==
    [c \in DOMAIN m |->
        IF m[c].algorithm_state = "frontier"
        THEN [m[c] EXCEPT !.algorithm_state = "visited"] ELSE m[c]]

\* Lines 405-409: every queued cell that differs from the head of the queue.
MarkFrontier(m, queue) ==
    [c \in DOMAIN m |->
        IF c \in Range(queue) /\ c # queue[1]
              /\ ~(m[c].is_start \/ m[c].is_end)
        THEN [m[c] EXCEPT !.algorithm_state = "frontier"] ELSE m[c]]

\* F(v), with v computed once however often F uses its argument.
Bind(F(_), v) == CHOOSE y \in {F(x) : x \in {v}} : TRUE

\* The outcome of running a task up to its next await or its return: the
\* grid, the task, and whether solve_dfs or solve_bfs has returned.
Suspended(m, t) == [maze |-> m, task |-> t, outcome |-> "none"]

Returned(m, t, o) == [maze |-> m, task |-> t, outcome |-> o]

\* Lines 464-472, from the element at index t.i on: up to the sleep after the
\* next cell marked as path, or to the end of the list and the return of
\* lines 371-373 or 424-426.
RECURSIVE PathLoop(_, _)
PathLoop(m, t) ==
    IF t.i > Len(t.path) THEN Returned(m, t, "found")
    ELSE IF m[t.path[t.i]].is_start \/ m[t.path[t.i]].is_end
         THEN PathLoop(m, [t EXCEPT !.i = @ + 1])
         ELSE Suspended([m EXCEPT ![t.path[t.i]].is_path = TRUE],
                        [t EXCEPT !.i = @ + 1, !.pc = "path"])

\* reconstruct_path up to its first await.
reconstruct_path(m, t) ==
    Bind(LAMBDA a : PathLoop(a[1], a[2]),
         <<ClearFrontier(m),
           [t EXCEPT !.path = path_of(t.parent, t.current), !.i = 1]>>)

\* solve_dfs from the loop test of line 355 to the sleep of line 366, or to
\* the return of lines 389-390.
DfsLoop(m, t) ==
    LET s == PopVisited(t.stack, t.visited)
    IN  IF s = <<>> THEN Returned(m, [t EXCEPT !.stack = s], "not found")
        ELSE Suspended(Mark(m, s[Len(s)], "visiting"),
                       [t EXCEPT !.stack = SubSeq(s, 1, Len(s) - 1),
                                 !.visited = @ \cup {s[Len(s)]},
                                 !.current = s[Len(s)],
                                 !.pc = "sleep"])

\* solve_dfs from the sleep of line 366 on.
DfsResume(m, t) ==
    IF t.current = maze_solver.end_pos THEN reconstruct_path(m, t)
    ELSE Bind(LAMBDA a : DfsLoop(a[1], a[2]),
              <<Mark(m, t.current, "visited"),
                LET ns == Neighbours(t.current, t.visited)
                IN  [t EXCEPT !.stack = @ \o ns,
                              !.parent = dfs_parent(@, Range(ns), t.current)]>>)

BfsLoopLifo(m, t) ==
    IF t.queue = <<>> THEN [maze |-> m, task |-> t, outcome |-> "not found"]
    ELSE [maze |-> Mark(MarkFrontier(m, t.queue), t.queue[Len(t.queue)],
                        "visiting"),
          task |-> [t EXCEPT !.queue = SubSeq(@, 1, Len(@) - 1),
                             !.current = t.queue[Len(t.queue)],
                             !.pc = "sleep"],
          outcome |-> "none"]

\* solve_bfs from the loop test of line 403 to the sleep of line 419, or to
\* the return of lines 443-444.
BfsLoop(m, t) ==
    IF t.queue = <<>> THEN Returned(m, t, "not found")
    ELSE Suspended(Mark(MarkFrontier(m, t.queue), Head(t.queue), "visiting"),
                   [t EXCEPT !.queue = Tail(@),
                             !.current = Head(t.queue),
                             !.pc = "sleep"])

BfsResumeMarkAtDequeue(m, t) ==
    IF t.current = maze_solver.end_pos THEN reconstruct_path(m, t)
    ELSE Bind(LAMBDA a : BfsLoop(a[1], a[2]),
              <<Mark(m, t.current, "visited"),
                LET ns == Neighbours(t.current, t.visited)
                IN  [t EXCEPT !.queue = @ \o ns,
                              !.visited = @ \cup {t.current},
                              !.parent = bfs_parent(@, Range(ns), t.current)]>>)

\* solve_bfs from the sleep of line 419 on.
BfsResume(m, t) ==
    IF t.current = maze_solver.end_pos THEN reconstruct_path(m, t)
    ELSE Bind(LAMBDA a : BfsLoop(a[1], a[2]),
              <<Mark(m, t.current, "visited"),
                LET ns == Neighbours(t.current, t.visited)
                IN  [t EXCEPT !.queue = @ \o ns,
                              !.visited = @ \cup Range(ns),
                              !.parent = bfs_parent(@, Range(ns), t.current)]>>)

\* The grid carries no coloring of a search.
Clean(m) ==
    \A c \in DOMAIN m : m[c].algorithm_state = "unvisited" /\ ~m[c].is_path

\* Lines 349-351 and 397-399; clean records whether the grid was clean when
\* the search began.
NewTask(algorithm, m) ==
    [algorithm |-> algorithm, pc |-> "start",
     stack |-> IF algorithm = "DFS" THEN <<maze_solver.start_pos>> ELSE <<>>,
     queue |-> IF algorithm = "BFS" THEN <<maze_solver.start_pos>> ELSE <<>>,
     visited |-> IF algorithm = "BFS" THEN {maze_solver.start_pos} ELSE {},
     parent |-> <<>>, current |-> maze_solver.start_pos,
     path |-> <<>>, i |-> 0, clean |-> Clean(m)]

RemoveAt(s, k) == [j \in 1 .. Len(s) - 1 |-> IF j < k THEN s[j] ELSE s[j + 1]]

NeverSolving(solving) == FALSE

\* Lines 298-299, 309-310, 324-325: the handler returns at once.
Ignored(solving) == solving

\* Lines 309-316: clear_path_click on the grid m, called when self.solving
\* has the given value.
clear_path_click(m, solving) ==
    IF Ignored(solving) THEN m
    ELSE [c \in DOMAIN m |-> [m[c] EXCEPT !.is_path = FALSE,
                                          !.algorithm_state = "unvisited"]]

\* Task k has run to the outcome r.  When its solve_dfs or solve_bfs has
\* returned, lines 339-342 follow without an await.
Continue(k, r) ==
    /\ maze' = r.maze
    /\ IF r.outcome = "none"
       THEN /\ tasks' = [tasks EXCEPT ![k] = r.task]
            /\ UNCHANGED <<maze_solver, result>>
       ELSE /\ tasks' = RemoveAt(tasks, k)
            /\ maze_solver' = [maze_solver EXCEPT !.solving = FALSE]
            /\ result' = [result EXCEPT ![r.task.algorithm] =
                            [outcome |-> r.outcome, path |-> r.task.path]]
    /\ UNCHANGED <<sudoku_vars, gen_vars, mstack, game>>

\* The application is idle between two handlers.
Ready == pc = "done" /\ op \in {"generate_maze", "hand_built"}

\* algorithm_changed, lines 218-222: the dropdown has got another value.
AlgorithmChanged ==
    /\ Ready
    /\ \E a \in {"DFS", "BFS"} \ {maze_solver.current_algorithm} :
          maze_solver' = [maze_solver EXCEPT !.current_algorithm = a]
    /\ UNCHANGED <<sudoku_vars, gen_vars, maze_vars, tasks, result, game>>

\* solve_maze_click up to the first await of the search it starts.  Line 332
\* calls clear_path_click after line 327 has set self.solving.
SolveMazeClick ==
    /\ Ready
    /\ IF Ignored(maze_solver.solving) THEN UNCHANGED vars
       ELSE \E m \in {clear_path_click(maze, TRUE)} :
            \E t \in {NewTask(maze_solver.current_algorithm, m)} :
            \E r \in {IF t.algorithm = "DFS" THEN DfsLoop(m, t)
                       ELSE BfsLoop(m, t)} :
                /\ maze' = r.maze
                /\ tasks' = Append(tasks, r.task)
                /\ maze_solver' = [maze_solver EXCEPT !.solving = TRUE]
                /\ UNCHANGED <<sudoku_vars, gen_vars, mstack, result, game>>

\* A sleep of solve_dfs ends.
DfsStep ==
    \E k \in DOMAIN tasks :
        /\ tasks[k].pc = "sleep" /\ tasks[k].algorithm = "DFS"
        /\ \E r \in {DfsResume(maze, tasks[k])} : Continue(k, r)

\* A sleep of solve_bfs ends.
BfsStep ==
    \E k \in DOMAIN tasks :
        /\ tasks[k].pc = "sleep" /\ tasks[k].algorithm = "BFS"
        /\ \E r \in {BfsResume(maze, tasks[k])} : Continue(k, r)

\* A sleep of reconstruct_path ends.
PathStep ==
    \E k \in DOMAIN tasks :
        /\ tasks[k].pc = "path"
        /\ \E r \in {PathLoop(maze, tasks[k])} : Continue(k, r)

\* clear_path_click as the handler of the Clear button.  With the coloring
\* the record of the searches that left it is dropped.
ClearPathClick ==
    /\ Ready
    /\ maze' = clear_path_click(maze, maze_solver.solving)
    /\ result' = IF Ignored(maze_solver.solving) THEN result
                 ELSE [a \in {"DFS", "BFS"} |-> NoResult]
    /\ UNCHANGED <<sudoku_vars, gen_vars, mstack, maze_solver, tasks, game>>

\* generate_maze_click, lines 296-305.
GenerateMazeClick ==
    /\ Ready
    /\ IF Ignored(maze_solver.solving) THEN UNCHANGED vars
       ELSE GenerateMazeCall

\* MazeSolver.__init__ calls generate_maze.
InitGenerate == pc = "idle" /\ GenerateMazeCall

NextSearch ==
    \/ AlgorithmChanged
    \/ SolveMazeClick
    \/ DfsStep
    \/ BfsStep
    \/ PathStep
    \/ ClearPathClick

NextApp ==
    \/ InitGenerate
    \/ CarveStep
    \/ CarveReturn
    \/ MazeFinish
    \/ GenerateMazeClick
    \/ NextSearch

\* The application of maze_solver.py from its construction on.
SpecApp == InitMaze /\ [][NextApp]_vars

(***************************************************************************)
(* Hand-built grids: a MazeSolver whose grid, start and end a caller has   *)
(* set, as the 5x5 scenario of test_maze.py.                               *)
(***************************************************************************)
\* test_maze.py, line 38.
test_maze_size == 5

\* test_maze.py, line 39.
test_walls == {<<1, 1>>, <<1, 2>>, <<2, 1>>, <<3, 3>>}

\* The cells of a grid of n by n cells, its start and its end: the corners,
\* as in the test.
GridCells(n) == (0 .. n - 1) \X (0 .. n - 1)

test_start == <<0, 0>>

GridEnd(n) == <<n - 1, n - 1>>

\* The sets of at most k cells of an n by n grid other than the corners.
RECURSIVE WallSets(_, _)
WallSets(n, k) ==
    IF k = 0 THEN {{}}
    ELSE LET P == WallSets(n, k - 1)
         IN  P \cup {S \cup {c} : S \in P,
                                  c \in GridCells(n) \ {test_start, GridEnd(n)}}

HandGrid(n, walls, start, end) ==
    [c \in GridCells(n) |->
        [NewCell EXCEPT !.is_wall = c \in walls, !.is_start = c = start,
                        !.is_end = c = end]]

\* The grids a caller builds: the grid of the test, and the grids of HandSize
\* by HandSize cells with at most MaxWalls walls, searched from one corner to
\* the opposite one or to the start itself.
HandBuilt ==
    {[n |-> test_maze_size, walls |-> test_walls,
      end |-> GridEnd(test_maze_size)]}
    \cup {[n |-> HandSize, walls |-> w, end |-> e] :
            w \in WallSets(HandSize, MaxWalls),
            e \in {test_start, GridEnd(HandSize)}}

\* The grids among them that the termination of a search is checked on: the
\* grid of the test, and the grids whose walls are next to the start or to
\* the end.
NextToCorner(n) == {<<1, 0>>, <<0, 1>>, <<n - 2, n - 1>>, <<n - 1, n - 2>>}

HandBuiltAtCorners ==
    {g \in HandBuilt : g.n = HandSize => g.walls \subseteq NextToCorner(g.n)}

\* A caller has built the MazeSolver with one of the grids of G.
GridInit(G) ==
    /\ board = EmptyBoard
    /\ board0 = board
    /\ op = "hand_built" /\ args = <<>> /\ pc = "done"
    /\ ret = FALSE /\ exc = "none"
    /\ SolverIdle /\ GenIdle
    /\ mstack = <<>>
    /\ \E g \in G :
          /\ maze = HandGrid(g.n, g.walls, test_start, g.end)
          /\ maze_solver = [maze_size |-> g.n,
                            start_pos |-> test_start, end_pos |-> g.end,
                            solving |-> FALSE, current_algorithm |-> "DFS"]
    /\ SearchIdle /\ GameIdle

InitGrid == GridInit(HandBuilt)

\* The searches on the hand-built grids.
SpecGrid == InitGrid /\ [][NextSearch]_vars

InitGridFair == GridInit(HandBuiltAtCorners)

\* Every asyncio.sleep returns: the event loop resumes a task that waits at
\* an await of solve_dfs, solve_bfs or reconstruct_path.
SpecGridFair ==
    /\ InitGridFair /\ [][NextSearch]_vars
    /\ WF_vars(DfsStep) /\ WF_vars(BfsStep) /\ WF_vars(PathStep)

(***************************************************************************)
(* SudokuGame (src/main.py).  `game` holds the fields of the object; a     *)
(* board that is still the empty list of __init__ is <<>>.  Each handler   *)
(* is an operator from the object's fields to its fields after the call,   *)
(* and an action that applies it.  The handlers are modelled as the        *)
(* methods they are: on_cell_change is applied to every cell, also to the  *)
(* read-only ones the page sends no event for.                             *)
(***************************************************************************)
\* self.max_mistakes of __init__.
max_mistakes == 3

\* hint_limits.get(difficulty, 18).
get_max_hints_for_difficulty(d) ==
    CASE d = "easy" -> 30
      [] d = "medium" -> 18
      [] d = "hard" -> 10
      [] OTHER -> 18

\* SudokuGame.__init__.
SudokuGame ==
    [puzzle_board |-> <<>>, solution_board |-> <<>>, initial_board |-> <<>>,
     difficulty |-> "medium", mistakes |-> 0, hints_used |-> 0,
     max_hints |-> 18, game_active |-> FALSE]

\* The board generate_complete_board returns when random.shuffle leaves each
\* nums in the order 1..9.
complete_board ==
    MkBoard(<< <<1, 2, 3, 5, 4, 7, 6, 9, 8>>,
               <<4, 5, 6, 2, 9, 8, 3, 1, 7>>,
               <<7, 8, 9, 3, 6, 1, 2, 4, 5>>,
               <<5, 6, 8, 1, 2, 3, 9, 7, 4>>,
               <<9, 1, 7, 4, 5, 6, 8, 3, 2>>,
               <<2, 3, 4, 7, 8, 9, 5, 6, 1>>,
               <<6, 9, 5, 8, 7, 4, 1, 2, 3>>,
               <<8, 7, 1, 9, 3, 2, 4, 5, 6>>,
               <<3, 4, 2, 6, 1, 5, 7, 8, 9>> >>)

\* The n cells from the k-th on, in row-major order.
Holes(n, k) == {c \in Idx \X Idx : RowMajor(c) \in k .. k + n - 1}

Emptied(b, H) ==
    [i \in Idx |-> [j \in Idx |-> IF <<i, j>> \in H THEN 0 ELSE b[i][j]]]

\* What generate_puzzle(d) may return: the complete board and a copy of it
\* with cells_to_remove(d) cells set to 0.  The draws of lines 88-93 empty
\* the cells in row-major order from one of the first PickWidth cells on.
generate_puzzle(d) ==
    {[puzzle_board |-> Emptied(complete_board, Holes(cells_to_remove(d), k)),
      solution_board |-> complete_board] : k \in 0 .. PickWidth - 1}

\* Lines 331-333, 338-339 and 346 of new_game, for the generated pair p.
new_game(g, p) ==
    [g EXCEPT !.mistakes = 0, !.hints_used = 0,
              !.max_hints = get_max_hints_for_difficulty(g.difficulty),
              !.puzzle_board = p.puzzle_board,
              !.solution_board = p.solution_board,
              !.initial_board = p.puzzle_board,
              !.game_active = TRUE]

\* Lines 317-318.
difficulty_changed(g, value) ==
    [g EXCEPT !.difficulty = value,
              !.max_hints = get_max_hints_for_difficulty(value)]

\* Line 491.
disable_board(g) == [g EXCEPT !.game_active = FALSE]

\* What the player may leave in a text field, which takes one character and
\* digits only (lines 197-198): nothing, or a digit, of which 0, 1 and 2 are
\* followed.
Keys == {"", "0", "1", "2"}

\* int(value): the number, or ValueError for a value that is no numeral.
int_of(value) ==
    CASE value = "0" -> [raised |-> FALSE, num |-> 0]
      [] value = "1" -> [raised |-> FALSE, num |-> 1]
      [] value = "2" -> [raised |-> FALSE, num |-> 2]
      [] OTHER -> [raised |-> TRUE, num |-> 0]

never_locked(g, row, col) == FALSE

\* Line 381: the cell was filled when the puzzle was generated.
locked(g, row, col) == g.initial_board[row][col] # 0

\* Lines 396-401.
count_mistake(g) ==
    LET g1 == [g EXCEPT !.mistakes = @ + 1]
    IN  IF g1.mistakes >= max_mistakes THEN disable_board(g1) ELSE g1

\* on_cell_change.  With the empty list of __init__, initial_board[row]
\* raises IndexError at line 381 and nothing is assigned.
on_cell_change(g, row, col, value) ==
    IF g.initial_board = <<>> THEN g
    ELSE IF locked(g, row, col) THEN g
    ELSE IF value = "" THEN [g EXCEPT !.puzzle_board[row][col] = 0]
    ELSE LET n == int_of(value)
             g1 == [g EXCEPT !.puzzle_board[row][col] = n.num]
         IN  IF n.raised THEN [g EXCEPT !.puzzle_board[row][col] = 0]
             ELSE IF 1 <= n.num /\ n.num <= 9
             THEN IF g.solution_board[row][col] = n.num
                  THEN g1
                  ELSE count_mistake(g1)
             ELSE [g EXCEPT !.puzzle_board[row][col] = 0]

\* SudokuGame.check_solution.  The solver's check_solution works on
\* puzzle_board itself; on the empty list its board[0][0] raises IndexError.
game_check_solution(g) ==
    IF g.puzzle_board = <<>> THEN g
    ELSE LET r == check_solution(g.puzzle_board)
             g1 == [g EXCEPT !.puzzle_board = r.board]
         IN  IF r.ret THEN disable_board(g1) ELSE g1

\* Lines 441-442.
empty_cells(g) ==
    {c \in Idx \X Idx : /\ g.puzzle_board[c[1]][c[2]] = 0
                        /\ g.initial_board[c[1]][c[2]] = 0}

\* The cell random.choice(empty_cells) returns is taken to be the first of
\* the list, which lines 441-442 build in row-major order.
hint_cell(g) ==
    CHOOSE c \in empty_cells(g) :
        \A d \in empty_cells(g) : RowMajor(c) <= RowMajor(d)

\* Lines 451-454 and 460, for the cell random.choice returned.
fill_hint(g, row, col) ==
    [g EXCEPT !.puzzle_board[row][col] = g.solution_board[row][col],
              !.hints_used = @ + 1]

\* solve_puzzle.  With the empty lists of __init__, update_board_display
\* raises IndexError at line 366 and disable_board is not reached.
solve_puzzle(g) ==
    LET g1 == [g EXCEPT !.puzzle_board = g.solution_board]
    IN  IF g1.puzzle_board = <<>> THEN g1 ELSE disable_board(g1)

\* The cells the player types into: the first cell, which the generated
\* puzzles leave empty or filled, and the last cell, which they leave filled.
TypedCells == {<<0, 0>>, <<8, 8>>}

GameFrame == UNCHANGED <<sudoku_vars, gen_vars, maze_vars, search_vars>>

NewGame ==
    /\ \E p \in generate_puzzle(game.difficulty) : game' = new_game(game, p)
    /\ GameFrame

\* The dropdown is disabled while a game is active (lines 347 and 493) and
\* sends no change event then.
DifficultyChanged ==
    /\ ~game.game_active
    /\ \E value \in Difficulties \ {game.difficulty} :
          game' = difficulty_changed(game, value)
    /\ GameFrame

OnCellChange ==
    /\ \E c \in TypedCells, value \in Keys :
          /\ game' = on_cell_change(game, c[1], c[2], value)
          /\ game'.mistakes <= MistakeCap
    /\ GameFrame

GameCheckSolution ==
    /\ game' = game_check_solution(game)
    /\ GameFrame

\* give_hint.  With the empty lists of __init__, line 441 raises IndexError
\* and nothing is assigned.
give_hint(g) ==
    IF g.hints_used >= g.max_hints THEN g
    ELSE IF g.puzzle_board = <<>> THEN g
    ELSE IF empty_cells(g) = {} THEN g
    ELSE fill_hint(g, hint_cell(g)[1], hint_cell(g)[2])

GiveHint ==
    /\ game' = give_hint(game)
    /\ GameFrame

SolvePuzzle ==
    /\ game' = solve_puzzle(game)
    /\ GameFrame

\* game = SudokuGame(page) of main(); no solver or maze operation runs.
InitGame ==
    /\ board = EmptyBoard
    /\ board0 = board
    /\ op = "none" /\ args = <<>> /\ pc = "idle"
    /\ ret = FALSE /\ exc = "none"
    /\ SolverIdle /\ GenIdle /\ MazeIdle
    /\ maze_solver = <<>> /\ SearchIdle
    /\ game = SudokuGame

NextGame ==
    \/ NewGame
    \/ DifficultyChanged
    \/ OnCellChange
    \/ GameCheckSolution
    \/ GiveHint
    \/ SolvePuzzle

SpecGame == InitGame /\ [][NextGame]_vars

(***************************************************************************)
(* Reference definitions for the maze properties.                          *)
(***************************************************************************)
OpenCells == {c \in Cells : ~maze[c].is_wall}

Adjacent(a, b) ==
    \/ a[1] = b[1] /\ (a[2] = b[2] + 1 \/ b[2] = a[2] + 1)
    \/ a[2] = b[2] /\ (a[1] = b[1] + 1 \/ b[1] = a[1] + 1)

RECURSIVE ReachFrom(_, _)
ReachFrom(S, V) ==
    LET T == S \cup {b \in V : \E a \in S : Adjacent(a, b)}
    IN  IF T = S THEN S ELSE ReachFrom(T, V)

\* The open cells are all reachable from one of them, by steps between
\* 4-adjacent open cells.
Connected(V) == V # {} /\ \A c \in V : ReachFrom({c}, V) = V

\* Each edge is counted in both directions.
EdgeCount(V) == Cardinality({e \in V \X V : Adjacent(e[1], e[2])})

\* The number of steps between 4-adjacent cells of V on a shortest way from a
\* cell of S to goal, plus d; -1 when there is no way.
RECURSIVE Distance(_, _, _, _)
Distance(S, V, goal, d) ==
    IF goal \in S THEN d
    ELSE LET T == S \cup {b \in V : \E a \in S : Adjacent(a, b)}
         IN  IF T = S THEN 0 - 1 ELSE Distance(T, V, goal, d + 1)

\* The shortest distance from the start to the end of the grid through its
\* open cells.
ShortestDistance ==
    Distance({maze_solver.start_pos}, {c \in DOMAIN maze : ~maze[c].is_wall},
             maze_solver.end_pos, 0)

\* The shortest distance from the start to the cell c through the open cells.
DistanceFromStart(c) ==
    Distance({maze_solver.start_pos}, {d \in DOMAIN maze : ~maze[d].is_wall},
             c, 0)

\* The grid is the 5x5 grid of test_maze.py searched from (0, 0) to (4, 4).
IsTestGrid ==
    /\ maze_solver.maze_size = 5
    /\ {c \in DOMAIN maze : maze[c].is_wall}
       = {<<1, 1>>, <<1, 2>>, <<2, 1>>, <<3, 3>>}
    /\ maze_solver.start_pos = <<0, 0>> /\ maze_solver.end_pos = <<4, 4>>

\* The sequence p is a chain of open cells of the grid that leads from the
\* start to the end by steps between 4-adjacent cells; the start itself is
\* not part of p.
IsChain(p) ==
    /\ maze_solver.start_pos # maze_solver.end_pos
        => /\ p # <<>>
           /\ Adjacent(maze_solver.start_pos, p[1])
           /\ p[Len(p)] = maze_solver.end_pos
    /\ \A i \in 1 .. Len(p) - 1 : Adjacent(p[i], p[i + 1])
    /\ \A i \in 1 .. Len(p) :
          /\ p[i] \in (0 .. maze_solver.maze_size - 1)
                       \X (0 .. maze_solver.maze_size - 1)
          /\ ~maze[p[i]].is_wall

\* The sequence p leads from start to goal along the links of parent: it
\* leaves out start, begins with a cell whose parent is start, ends with
\* goal, and the parent of each further cell is the cell before it; it is
\* empty when goal is start.
FollowsParents(p, parent, start, goal) ==
    /\ start \notin Range(p)
    /\ goal = start => p = <<>>
    /\ goal # start
        => /\ p # <<>>
           /\ p[Len(p)] = goal
           /\ parent[p[1]] = start
           /\ \A i \in 2 .. Len(p) : parent[p[i]] = p[i - 1]

\* The open cells of the grid contain a cycle.
HasCycle ==
    LET V == {c \in DOMAIN maze : ~maze[c].is_wall}
    IN  EdgeCount(V) >= 2 * Cardinality(V)

\* A connected graph is acyclic iff it has one edge less than vertices.
PerfectMaze(V) == Connected(V) /\ EdgeCount(V) = 2 * (Cardinality(V) - 1)

(***************************************************************************)
(* C1: check_solution returns true exactly when no cell is 0 and every row,*)
(* column and 3x3 box contains each of 1..9 exactly once; so it returns    *)
(* false on a solved board with one cell changed to another digit.         *)
(***************************************************************************)
C1_CheckSolutionIffSolved ==
    (op = "check_solution" /\ pc = "returned") => (ret = IsSolved(board0))

\* check_solution has returned false on the solved board with exactly one
\* cell changed to a different digit of 1..9.
C1_Witness ==
    /\ op = "check_solution" /\ pc = "returned" /\ ~ret
    /\ Cardinality(Differing(board0, SolvedBoard)) = 1
    /\ \A i \in Idx, j \in Idx : board0[i][j] # 0

(***************************************************************************)
(* C2: for row, col in 0..8 and num in 1..9, is_valid returns true exactly *)
(* when num occurs in no cell of the row, of the column and of the 3x3 box *)
(* containing (row, col).                                                  *)
(***************************************************************************)
C2_IsValidIffAbsent ==
    (op = "is_valid" /\ pc = "returned"
        /\ args[1] \in 0 .. 8 /\ args[2] \in 0 .. 8 /\ args[3] \in 1 .. 9)
    => /\ exc = "none"
       /\ ret = (args[3] \notin RowVals(board, args[1])
                                \cup ColVals(board, args[2])
                                \cup BoxVals(board, args[1], args[2]))

\* is_valid has returned false for a digit that is absent from the row and
\* the column of the cell and present in its box.
C2_Witness ==
    /\ op = "is_valid" /\ pc = "returned" /\ exc = "none" /\ ~ret
    /\ args[1] \in 0 .. 8 /\ args[2] \in 0 .. 8 /\ args[3] \in 1 .. 9
    /\ args[3] \notin RowVals(board, args[1]) \cup ColVals(board, args[2])
    /\ args[3] \in BoxVals(board, args[1], args[2])

(***************************************************************************)
(* C9: is_valid called with row or col outside 0..8 or num outside 1..9    *)
(* raises an argument error; it never returns a boolean computed from such *)
(* arguments.                                                              *)
(***************************************************************************)
C9_OutOfRangeFailsFast ==
    (op = "is_valid" /\ pc = "returned"
        /\ ~(args[1] \in 0 .. 8 /\ args[2] \in 0 .. 8 /\ args[3] \in 1 .. 9))
    => exc # "none"

(***************************************************************************)
(* C3: on a board that has a valid completion, solve_sudoku returns true   *)
(* and leaves the board full, valid in every row, column and box and equal *)
(* to the input on every cell that was non-zero; when the completion is    *)
(* unique the board is that completion (the test board ends as its known   *)
(* solution).                                                              *)
(***************************************************************************)
C3_SolveCompletes ==
    (op = "solve_sudoku" /\ pc = "done" /\ KnownCompletions(board0) # {})
    => /\ ret
       /\ IsSolved(board)
       /\ Agrees(board0, board)
       /\ (FewBlanks(board0) /\ Cardinality(KnownCompletions(board0)) = 1)
            => board \in KnownCompletions(board0)
       /\ board0 = test_board => board = SolvedBoard

\* solve_sudoku has returned true on the test board, whose 51 empty cells it
\* filled.
C3_Witness ==
    /\ op = "solve_sudoku" /\ pc = "done" /\ ret
    /\ board0 = test_board /\ Blanks(board) = {}

(***************************************************************************)
(* C4: on a board that has no valid completion (pre-filled cells that      *)
(* already hold a duplicate, or a full board), solve_sudoku terminates     *)
(* and returns false.                                                      *)
(***************************************************************************)
C4_NoCompletionReturnsFalse ==
    (op = "solve_sudoku" /\ pc = "done"
        /\ FewBlanks(board0) /\ Completions(board0) = {})
    => ~ret

Zeros(b) == Cardinality(Blanks(b))

(***************************************************************************)
(* C5: whatever the three diagonal-box permutations, the complete board    *)
(* (the solution generate_puzzle returns) has no zero cell, every row,     *)
(* column and 3x3 box of it is exactly {1..9}, and check_solution on it    *)
(* returns true.                                                           *)
(***************************************************************************)
C5_CompleteBoardSolved ==
    (op = "generate_puzzle" /\ pc \in {"solved", "done"})
    => /\ Blanks(board) = {}
       /\ IsSolved(board)
       /\ check_solution(board).ret

\* generate_puzzle has returned a solution grown from three rotated
\* diagonal boxes.
C5_Witness ==
    /\ op = "generate_puzzle" /\ pc = "done"
    /\ board[0][0] = 2 /\ board[3][3] = 2 /\ board[6][6] = 2

(***************************************************************************)
(* C6: for easy, medium and hard, whatever cells the random picks land on  *)
(* (picks of an already emptied cell are not counted), the returned puzzle *)
(* has exactly 40, 50 and 60 zero cells.                                   *)
(***************************************************************************)
C6_HoleCount ==
    (op = "generate_puzzle" /\ pc = "done")
    => /\ difficulty = "easy" => Zeros(puzzle_board) = 40
       /\ difficulty = "medium" => Zeros(puzzle_board) = 50
       /\ difficulty = "hard" => Zeros(puzzle_board) = 60

\* The hard puzzle is returned after a draw landed on an already emptied
\* cell.
C6_Witness ==
    /\ op = "generate_puzzle" /\ pc = "done" /\ difficulty = "hard"
    /\ repicked /\ removed = 60

(***************************************************************************)
(* C7: for the returned puzzle and solution and every cell (r, c) with     *)
(* solution value v, is_valid(puzzle, r, c, v) is true once puzzle[r][c]   *)
(* is set to 0.                                                            *)
(***************************************************************************)
C7_SolutionValuesValid ==
    (op = "generate_puzzle" /\ pc = "done")
    => \A r \in Idx, c \in Idx :
          is_valid(SetCell(puzzle_board, r, c, 0), r, c, board[r][c])

\* A medium puzzle is returned that still holds clues.
C7_Witness ==
    /\ op = "generate_puzzle" /\ pc = "done" /\ difficulty = "medium"
    /\ Zeros(puzzle_board) = 50 /\ NonEmpty(puzzle_board) # {}

(***************************************************************************)
(* C10: after generate_maze, whatever the direction shuffles, the non-wall *)
(* cells form a connected, acyclic graph under 4-neighbour adjacency that  *)
(* contains the start cell (1,1) and the end cell (N-2,N-2).               *)
(***************************************************************************)
C10_PerfectMaze ==
    (op = "generate_maze" /\ pc = "done")
    => /\ PerfectMaze(OpenCells)
       /\ start_pos \in OpenCells /\ end_pos \in OpenCells
       /\ maze[start_pos].is_start /\ maze[end_pos].is_end

\* A maze is finished in which the end cell is a dead end entered from the
\* left: the carving went around.
C10_Witness ==
    /\ op = "generate_maze" /\ pc = "done"
    /\ ~maze[<<maze_size - 3, maze_size - 2>>].is_wall
    /\ maze[<<maze_size - 2, maze_size - 3>>].is_wall

(***************************************************************************)
(* C11: on every grid generate_maze produces, solve_dfs and solve_bfs      *)
(* started at (1, 1) end with the goal found and the path to it            *)
(* reconstructed, never with "No solution found".                          *)
(***************************************************************************)
C11_GeneratedMazeSolved ==
    \A a \in {"DFS", "BFS"} :
        /\ result[a].outcome # "not found"
        /\ result[a].outcome = "found"
            => /\ result[a].path # <<>>
               /\ result[a].path[Len(result[a].path)] = end_pos

\* Both searches have ended on one generated grid.
C11_Witness ==
    /\ op = "generate_maze" /\ maze_solver.start_pos = <<1, 1>>
    /\ result["DFS"].outcome = "found" /\ result["BFS"].outcome = "found"

(***************************************************************************)
(* C12: on every grid whose end is reachable from its start, the path      *)
(* solve_bfs reconstructs has as many coordinates as a shortest way from   *)
(* the start to the end through 4-adjacent open cells has steps; that is 8 *)
(* on the 5x5 grid of the test.                                            *)
(***************************************************************************)
C12_BfsPathShortest ==
    result["BFS"].outcome = "found"
    => /\ Len(result["BFS"].path) = ShortestDistance
       /\ IsTestGrid => Len(result["BFS"].path) = 8

\* solve_bfs has reconstructed its path on the grid of the test.
C12_Witness ==
    /\ IsTestGrid
    /\ result["BFS"].outcome = "found" /\ Len(result["BFS"].path) = 8

(***************************************************************************)
(* C13: on every grid and start/end pair on which both searches succeed,   *)
(* the path of solve_bfs has at most as many coordinates as the path of    *)
(* solve_dfs.                                                              *)
(***************************************************************************)
C13_BfsNotLongerThanDfs ==
    (result["DFS"].outcome = "found" /\ result["BFS"].outcome = "found")
    => Len(result["BFS"].path) <= Len(result["DFS"].path)

\* Both searches have succeeded on one grid and solve_dfs has reconstructed
\* a longer path than solve_bfs.
C13_Witness ==
    /\ result["DFS"].outcome = "found" /\ result["BFS"].outcome = "found"
    /\ Len(result["BFS"].path) < Len(result["DFS"].path)

(***************************************************************************)
(* C14: on every grid on which solve_dfs succeeds, grids with cycles       *)
(* included, the reconstructed path is a chain: its first coordinate is    *)
(* 4-adjacent to the start, every two consecutive coordinates are          *)
(* 4-adjacent, every coordinate is in the grid and not a wall, and the     *)
(* last coordinate is the end.                                             *)
(***************************************************************************)
C14_DfsPathIsChain ==
    result["DFS"].outcome = "found" => IsChain(result["DFS"].path)

\* solve_dfs has succeeded on a grid with a cycle, by a way that is not a
\* shortest one.
C14_Witness ==
    /\ result["DFS"].outcome = "found"
    /\ HasCycle
    /\ Len(result["DFS"].path) > ShortestDistance

(***************************************************************************)
(* C15: on every hand-built grid solve_dfs and solve_bfs terminate; they   *)
(* end with "No solution found" exactly when no chain of 4-adjacent open   *)
(* cells leads from the start to the end, and then no cell is marked as    *)
(* path.                                                                   *)
(***************************************************************************)
C15_TerminatesNotFoundIffUnreachable ==
    /\ [](\A a \in {"DFS", "BFS"} :
            /\ result[a].outcome # "none"
                => (result[a].outcome = "not found") = (ShortestDistance < 0)
            /\ result[a].outcome = "not found"
                => \A c \in DOMAIN maze : ~maze[c].is_path)
    /\ (tasks # <<>>) ~> (tasks = <<>>)

\* Both searches have ended with "No solution found" on one grid.
C15_Witness ==
    /\ result["DFS"].outcome = "not found"
    /\ result["BFS"].outcome = "not found"
    /\ tasks = <<>>

(***************************************************************************)
(* C16: for the parent map a search has built and the goal it has reached, *)
(* reconstruct_path yields a sequence that leaves out the start, begins    *)
(* with the first step after the start, ends with the goal, and in which   *)
(* the parent of each element is the element before it (the parent of the  *)
(* first is the start); the sequence is empty when the goal is the start.  *)
(***************************************************************************)
C16_PathFollowsParents ==
    /\ \A k \in DOMAIN tasks :
          /\ tasks[k].pc = "path"
              => FollowsParents(tasks[k].path, tasks[k].parent,
                                maze_solver.start_pos, tasks[k].current)
          /\ (tasks[k].pc = "sleep" /\ tasks[k].current = maze_solver.end_pos)
              => FollowsParents(path_of(tasks[k].parent, tasks[k].current),
                                tasks[k].parent,
                                maze_solver.start_pos, tasks[k].current)
    /\ \A a \in {"DFS", "BFS"} :
          result[a].outcome = "found"
          => /\ maze_solver.start_pos \notin Range(result[a].path)
             /\ (result[a].path = <<>>)
                = (maze_solver.start_pos = maze_solver.end_pos)

\* reconstruct_path has built a path of three cells or more from the parent
\* map of a search.
C16_Witness ==
    \E k \in DOMAIN tasks :
        /\ tasks[k].pc = "path"
        /\ Len(tasks[k].path) >= 3
        /\ tasks[k].path = path_of(tasks[k].parent, maze_solver.end_pos)

(***************************************************************************)
(* C17: however the Solve, Generate and Clear clicks interleave with the   *)
(* awaits of a running search, at most one search is in flight, and a      *)
(* Generate or Clear click that arrives while a search is in flight        *)
(* changes no cell of the maze.                                            *)
(***************************************************************************)
C17_SingleSearchInFlight ==
    /\ [](Len(tasks) <= 1)
    /\ [][(tasks # <<>> /\ (GenerateMazeClick \/ ClearPathClick))
            => maze' = maze]_vars

\* A search that has colored cells is suspended in reconstruct_path; the
\* handlers of the three buttons may run next.
C17_Witness ==
    /\ Ready /\ maze_solver.solving
    /\ Len(tasks) = 1 /\ tasks[1].pc = "path"
    /\ ~Clean(maze)

(***************************************************************************)
(* C18.  After new_game, no on_cell_change, give_hint, check_solution or   *)
(* solve_puzzle call changes initial_board, and every cell that is non-zero*)
(* in initial_board holds that same value in puzzle_board.                 *)
(***************************************************************************)
GivenCells == {c \in Idx \X Idx : game.initial_board[c[1]][c[2]] # 0}

C18_InitialBoardLocked ==
    /\ [](game.initial_board # <<>> =>
            \A c \in GivenCells :
               game.puzzle_board[c[1]][c[2]] = game.initial_board[c[1]][c[2]])
    /\ [][(/\ game.initial_board # <<>>
           /\ OnCellChange \/ GiveHint \/ GameCheckSolution \/ SolvePuzzle)
          => game'.initial_board = game.initial_board]_vars

\* A game in which a wrong digit was typed and a hint given, and whose
\* puzzle was then solved by solve_puzzle: the filled cells of initial_board
\* are among the cells the player typed into, and its empty cells are filled.
C18_Witness ==
    /\ game.initial_board # <<>>
    /\ game.mistakes > 0 /\ game.hints_used > 0
    /\ ~game.game_active
    /\ game.puzzle_board = game.solution_board
    /\ TypedCells \cap GivenCells # {}
    /\ game.initial_board # game.puzzle_board

(***************************************************************************)
(* C19.  During a search started on a freshly generated or cleared grid,   *)
(* every change of algorithm_state of a cell that is neither start nor end *)
(* is one of unvisited->frontier (BFS only), unvisited->visiting,          *)
(* frontier->visiting, visiting->visited.                                  *)
(***************************************************************************)
\* The cells whose algorithm_state this step changes.
Recoloured ==
    {c \in DOMAIN maze :
        /\ ~(maze[c].is_start \/ maze[c].is_end)
        /\ maze'[c].algorithm_state # maze[c].algorithm_state}

Change(c) == <<maze[c].algorithm_state, maze'[c].algorithm_state>>

\* A step of a search that began on a grid without coloring.
CleanSearchStep ==
    /\ tasks # <<>> /\ tasks[1].clean
    /\ DfsStep \/ BfsStep \/ PathStep

StateMachine(t) ==
    {<<"unvisited", "visiting">>, <<"frontier", "visiting">>,
     <<"visiting", "visited">>}
    \cup (IF t.algorithm = "BFS" THEN {<<"unvisited", "frontier">>} ELSE {})

\* The property as stated: it fails when solve_bfs reaches the end while
\* other cells are queued, because reconstruct_path turns every frontier
\* cell into a visited one.
C19_StatedTransitions ==
    [][CleanSearchStep =>
          \A c \in Recoloured : Change(c) \in StateMachine(tasks[1])]_vars

\* The sleep that ends now is the one after which solve_bfs finds the end
\* and calls reconstruct_path.
BfsReachesEnd(t) ==
    t.algorithm = "BFS" /\ t.pc = "sleep" /\ t.current = maze_solver.end_pos

\* C19 as the code has it: the four changes, and frontier->visited for the
\* cells still queued when solve_bfs reaches the end; a cell becomes visited
\* only from visiting or, then, from frontier, and DFS never sets frontier.
C19_TransitionsWithFrontierCleared ==
    [][CleanSearchStep =>
          \A c \in Recoloured :
             \/ Change(c) \in StateMachine(tasks[1])
             \/ /\ BfsReachesEnd(tasks[1])
                /\ c \in Range(tasks[1].queue)
                /\ Change(c) = <<"frontier", "visited">>]_vars

\* solve_bfs has reached the end on a grid without coloring, and a cell that
\* is still queued, which never was visiting, is visited.
C19_Witness ==
    /\ tasks # <<>> /\ tasks[1].clean
    /\ tasks[1].algorithm = "BFS" /\ tasks[1].pc = "path"
    /\ \E c \in Range(tasks[1].queue) : maze[c].algorithm_state = "visited"

(***************************************************************************)
(* C20.  When Solve is clicked on a grid that still carries the coloring   *)
(* of an earlier search, every cell has algorithm_state "unvisited" and    *)
(* is_path false before the new search processes its first cell.           *)
(* solve_maze_click sets self.solving before it calls clear_path_click,    *)
(* which therefore returns at line 310: the coloring stays.                *)
(***************************************************************************)
\* A Solve click that starts a search leaves a grid without coloring at the
\* first sleep of the search, whose first cell is start.
C20_SolveClearsColoring ==
    [][(/\ ~maze_solver.solving
        /\ ~Clean(maze)
        /\ SolveMazeClick) => Clean(maze')]_vars

(***************************************************************************)
(* C21.  In solve_bfs on any grid, no coordinate is enqueued more than     *)
(* once: a coordinate is added to the visited set when it is enqueued, and *)
(* only coordinates outside the visited set are enqueued.  The parent      *)
(* recorded for an enqueued coordinate is the 4-adjacent coordinate that   *)
(* was being dequeued when it was enqueued, and it is not changed later.   *)
(***************************************************************************)
BfsInFlight == tasks # <<>> /\ tasks[1].algorithm = "BFS"

\* The coordinates appended to the queue by the step from task t to task u,
\* in which u.current was popped after the appending.
Enqueued(t, u) ==
    IF u.pc = "sleep"
    THEN SubSeq(<<u.current>> \o u.queue, Len(t.queue) + 1, Len(u.queue) + 1)
    ELSE <<>>

Distinct(q) == \A i, j \in DOMAIN q : q[i] = q[j] => i = j

C21_BfsEnqueuesOnce ==
    /\ [](BfsInFlight =>
            /\ Distinct(tasks[1].queue)
            /\ Range(tasks[1].queue) \subseteq tasks[1].visited
            /\ tasks[1].current \in tasks[1].visited \ Range(tasks[1].queue)
            /\ DOMAIN tasks[1].parent
               = tasks[1].visited \ {maze_solver.start_pos})
    /\ [][(BfsInFlight /\ BfsStep /\ tasks' # <<>>) =>
            LET t == tasks[1]
                u == tasks'[1]
                new == Enqueued(t, u)
            IN  /\ Distinct(new)
                /\ Range(new) \cap t.visited = {}
                /\ u.visited = t.visited \cup Range(new)
                /\ \A n \in Range(new) :
                      u.parent[n] = t.current /\ Adjacent(n, t.current)
                /\ \A n \in DOMAIN t.parent : u.parent[n] = t.parent[n]]_vars

\* A queued coordinate has two neighbours that were dequeued before it: it
\* was met from both and is in the queue once.
C21_Witness ==
    /\ BfsInFlight /\ tasks[1].pc = "sleep"
    /\ \E c \in Range(tasks[1].queue) :
          \E a, b \in tasks[1].visited \ Range(tasks[1].queue) :
              /\ a # b /\ Adjacent(a, c) /\ Adjacent(b, c)
              /\ a # tasks[1].current /\ b # tasks[1].current

(***************************************************************************)
(* C22.  In solve_dfs on any grid, a parent link that has been recorded    *)
(* for a coordinate is never changed for the rest of the search, also when *)
(* the coordinate is pushed again from a different cell, and no parent     *)
(* link is ever recorded for start.                                        *)
(***************************************************************************)
DfsInFlight == tasks # <<>> /\ tasks[1].algorithm = "DFS"

C22_DfsParentKept ==
    /\ [](DfsInFlight =>
            maze_solver.start_pos \notin DOMAIN tasks[1].parent)
    /\ [][(DfsInFlight /\ tasks' # <<>>) =>
            \A n \in DOMAIN tasks[1].parent :
               /\ n \in DOMAIN tasks'[1].parent
               /\ tasks'[1].parent[n] = tasks[1].parent[n]]_vars

\* A coordinate that has not been popped is on the stack twice and has a
\* visited neighbour other than its parent: it was pushed from two cells and
\* has one parent.
C22_Witness ==
    /\ DfsInFlight /\ tasks[1].pc = "sleep"
    /\ \E i, j \in DOMAIN tasks[1].stack :
          /\ i < j /\ tasks[1].stack[i] = tasks[1].stack[j]
          /\ tasks[1].stack[i] \notin tasks[1].visited
          /\ tasks[1].stack[i] \in DOMAIN tasks[1].parent
          /\ \E a \in tasks[1].visited \ {tasks[1].parent[tasks[1].stack[i]]} :
                /\ Adjacent(a, tasks[1].stack[i])
                /\ maze[a].algorithm_state = "visited"

(***************************************************************************)
(* C23.  In solve_bfs on any grid, the coordinates are dequeued in         *)
(* non-decreasing order of their shortest open-cell distance from start:   *)
(* each dequeued coordinate is at least as far from start as the one       *)
(* dequeued before it.                                                     *)
(***************************************************************************)
C23_BfsDequeuesByDistance ==
    /\ [](BfsInFlight =>
            /\ DistanceFromStart(tasks[1].current) >= 0
            /\ \A c \in Range(tasks[1].queue) :
                  DistanceFromStart(c) >= DistanceFromStart(tasks[1].current))
    /\ [][(BfsInFlight /\ BfsStep /\ tasks' # <<>>) =>
            DistanceFromStart(tasks'[1].current)
               >= DistanceFromStart(tasks[1].current)]_vars

\* The coordinate just dequeued is two or more steps from start, and the
\* queue holds coordinates at its distance and at the next.
C23_Witness ==
    /\ BfsInFlight /\ tasks[1].pc = "sleep"
    /\ DistanceFromStart(tasks[1].current) >= 2
    /\ \E a, b \in Range(tasks[1].queue) :
          /\ DistanceFromStart(a) = DistanceFromStart(tasks[1].current)
          /\ DistanceFromStart(b) = DistanceFromStart(tasks[1].current) + 1

(***************************************************************************)
(* C24.  solve_dfs, solve_bfs and reconstruct_path change only             *)
(* algorithm_state and is_path of a cell, never is_wall, is_start or       *)
(* is_end, and from the Solve click that starts a search to the return of  *)
(* the search no step changes the wall layout: the layout after a search   *)
(* is the layout before it.                                                *)
(***************************************************************************)
\* The grid m2 differs from m1 in algorithm_state and is_path at most.
OnlyColoured(m1, m2) ==
    \/ m2 = m1
    \/ /\ DOMAIN m2 = DOMAIN m1
       /\ \A c \in DOMAIN m1 :
             /\ m2[c].is_wall = m1[c].is_wall
             /\ m2[c].is_start = m1[c].is_start
             /\ m2[c].is_end = m1[c].is_end
             /\ m2[c].is_visited = m1[c].is_visited

\* A search is in flight before or after the step: the step is the Solve
\* click that starts it, a step of solve_dfs, solve_bfs or reconstruct_path,
\* or a click handled between two of them.
C24_SearchKeepsLayout ==
    [][(tasks # <<>> \/ tasks' # <<>>) => OnlyColoured(maze, maze')]_vars

\* A search on a generated maze has returned and has left visited cells and
\* a path on the grid.
C24_Witness ==
    /\ op = "generate_maze" /\ tasks = <<>> /\ ~maze_solver.solving
    /\ \E a \in {"DFS", "BFS"} : result[a].outcome = "found"
    /\ \E c \in DOMAIN maze : maze[c].algorithm_state = "visited"
    /\ \E c \in DOMAIN maze : maze[c].is_path

(***************************************************************************)
(* C25.  check_solution leaves the board cell-for-cell equal to its input  *)
(* on every return path, when it returns true and when it returns false,   *)
(* although it clears cells while it checks.                               *)
(***************************************************************************)
C25_CheckSolutionRestores ==
    (op = "check_solution" /\ pc = "returned") => (board = board0)

\* check_solution has returned false on a full board whose first cell passed
\* the check: it has cleared and restored a cell that passed, and cleared
\* the cell that failed.
C25_Witness ==
    /\ op = "check_solution" /\ pc = "returned" /\ ~ret
    /\ \A i \in Idx, j \in Idx : board0[i][j] # 0
    /\ is_valid(SetCell(board0, 0, 0, 0), 0, 0, board0[0][0])
    /\ board = board0

(***************************************************************************)
(* C26.  After any sequence of new_game, difficulty_changed, give_hint and *)
(* game-ending operations, hints_used never exceeds max_hints, where       *)
(* max_hints is 30, 18 or 10 for the selected difficulty easy, medium or   *)
(* hard.  hints_used is reset by new_game only: when a game has ended and  *)
(* a difficulty with a lower limit is selected, max_hints falls below the  *)
(* hints_used of the ended game.                                           *)
(***************************************************************************)
C26_HintsWithinLimit ==
    game # <<>> =>
        /\ game.max_hints = get_max_hints_for_difficulty(game.difficulty)
        /\ game.hints_used <= game.max_hints

(***************************************************************************)
(* C27.  Whenever solve_sudoku returns false, the board is cell-for-cell   *)
(* equal to the board it was called with: every digit it tried has been    *)
(* reset to 0 and no pre-filled cell has been altered.  For the outermost  *)
(* call that board is the caller's; for a recursive call it is the         *)
(* caller's board with the digits the calls below it have placed.          *)
(***************************************************************************)
\* The cells the active calls have placed a digit in.
FrameCells == {<<stack[k].i, stack[k].j>> : k \in DOMAIN stack}

C27_FalseLeavesBoard ==
    /\ (op = "solve_sudoku" /\ pc = "done" /\ ~ret) => board = board0
    /\ (op = "solve_sudoku" /\ pc = "ret" /\ ~ret)
       => \A c \in Idx \X Idx :
             IF c \in FrameCells
             THEN board0[c[1]][c[2]] = 0 /\ board[c[1]][c[2]] # 0
             ELSE board[c[1]][c[2]] = board0[c[1]][c[2]]

\* solve_sudoku has returned false on the test board with the clue that
\* rules out every completion, after placing and resetting digits in its
\* empty cells.
C27_Witness ==
    /\ op = "solve_sudoku" /\ pc = "done" /\ ~ret
    /\ board0 = DeadBoard /\ board = board0 /\ Zeros(board0) > 40

(***************************************************************************)
(* C28.  On every grid produced by generate_maze, solve_dfs and solve_bfs  *)
(* reconstruct the identical path, the same coordinates in the same order, *)
(* from start to end.                                                      *)
(***************************************************************************)
C28_SamePathOnGeneratedMaze ==
    (/\ op = "generate_maze"
     /\ result["DFS"].outcome = "found"
     /\ result["BFS"].outcome = "found")
    => result["DFS"].path = result["BFS"].path

\* Both searches have found the end of a generated maze that has a side
\* branch of two open cells or more off their path, which the searches
\* explore in different orders.
C28_Witness ==
    /\ op = "generate_maze" /\ pc = "done" /\ tasks = <<>>
    /\ result["DFS"].outcome = "found"
    /\ result["BFS"].outcome = "found"
    /\ Len(result["BFS"].path) >= 2 * MazeHalf
    /\ \E c \in OpenCells \ Range(result["BFS"].path) :
          c # maze_solver.start_pos
          /\ Cardinality({d \in OpenCells : Adjacent(c, d)}) >= 2

====
